---- MODULE Spec2Model ----
(***************************************************************************)
(* Model of the Viper soundboard backend (server.js): the username key     *)
(* encoder, the hierarchical store the handlers talk to, and the request   *)
(* handlers POST/GET/DELETE /videos, POST /signup and POST /login.         *)
(*                                                                         *)
(* Strings the code parses (usernames, video ids, passwords, path pieces)  *)
(* are sequences of one-character strings; strings the code only carries   *)
(* (titles, urls, response tags) are TLA+ strings.                         *)
(***************************************************************************)
EXTENDS Integers, Sequences, FiniteSets, TLC

VARIABLES
    db,         \* the Realtime Database: path -> leaf value
    now,        \* the database server's clock (ServerValue.TIMESTAMP)
    pc,         \* per request slot: where its handler stands
    req,        \* per request slot: the request being served
    loc,        \* per request slot: the handler's local variables
    resp,       \* per request slot: the response sent
    pre,        \* per request slot: the store and the accounts as they were when the request arrived
    lastSaved,  \* the request completed just before the current one, if it was a saved POST /videos
    accounts,   \* usernames whose signup returned 201, with the password given
    raw,        \* encoder harness: the username under test
    token,      \* encoder harness: encodeUsernameForFirebase(raw)
    decoded,    \* encoder harness: decodeUsernameFromFirebase(token)
    phase,      \* encoder harness: "raw", "encoded" or "decoded"
    raw2,       \* encoder harness: a second username
    token2      \* encoder harness: encodeUsernameForFirebase(raw2)

vars ==
    <<db, now, pc, req, loc, resp, pre, lastSaved, accounts,
      raw, token, decoded, phase, raw2, token2>>

apiVars == <<db, now, pc, req, loc, resp, pre, lastSaved, accounts>>
encVars == <<raw, token, decoded, phase, raw2, token2>>

-----------------------------------------------------------------------------
(* Bounds of the model *)

\* longest username the encoder harness tries
MaxLen == 5
\* latest value of the server clock
MaxTime == 2
\* request slots (requests that can be in flight together)
NumProcs == 2

-----------------------------------------------------------------------------
(* Strings *)

\* the characters of the model in code-unit order
AsciiOrder ==
    <<"#", "$", ".", "/", "0", "1", "2", "3", "4", "5", "6", "7", "8", "9", "@",
      "A", "B", "C", "D", "E", "F", "G", "H", "I", "J", "K", "L", "M",
      "N", "O", "P", "Q", "R", "S", "T", "U", "V", "W", "X", "Y", "Z",
      "[", "]", "_",
      "a", "b", "c", "d", "e", "f", "g", "h", "i", "j", "k", "l", "m",
      "n", "o", "p", "q", "r", "s", "t", "u", "v", "w", "x", "y", "z">>

CharCode(c) == CHOOSE i \in 1..Len(AsciiOrder) : AsciiOrder[i] = c

\* s < t as JavaScript compares strings (and as the store orders string keys)
RECURSIVE StrLess(_, _)
StrLess(s, t) ==
    IF t = <<>> THEN FALSE
    ELSE IF s = <<>> THEN TRUE
    ELSE IF s[1] = t[1] THEN StrLess(Tail(s), Tail(t))
    ELSE CharCode(s[1]) < CharCode(t[1])

\* pat occurs in s at position i
MatchAt(s, i, pat) ==
    /\ i + Len(pat) - 1 <= Len(s)
    /\ SubSeq(s, i, i + Len(pat) - 1) = pat

\* String.prototype.replace(/pat/g, rep) for a literal pattern: matches are
\* taken left to right and do not overlap
RECURSIVE ReplaceFrom(_, _, _, _)
ReplaceFrom(s, i, pat, rep) ==
    IF i > Len(s) THEN <<>>
    ELSE IF MatchAt(s, i, pat) THEN rep \o ReplaceFrom(s, i + Len(pat), pat, rep)
    ELSE <<s[i]>> \o ReplaceFrom(s, i + 1, pat, rep)

ReplaceAll(s, pat, rep) == ReplaceFrom(s, 1, pat, rep)

-----------------------------------------------------------------------------
(* Key encoder *)

M_DOT == <<"_", "D", "O", "T", "_">>
M_AT == <<"_", "A", "T", "_">>
M_HASH == <<"_", "H", "A", "S", "H", "_">>
M_DOLLAR == <<"_", "D", "O", "L", "L", "A", "R", "_">>
M_LBRACKET == <<"_", "L", "B", "R", "A", "C", "K", "E", "T", "_">>
M_RBRACKET == <<"_", "R", "B", "R", "A", "C", "K", "E", "T", "_">>

encodeUsernameForFirebase(username) ==
    IF username = <<>> THEN username
    ELSE LET s1 == ReplaceAll(username, <<".">>, M_DOT)
             s2 == ReplaceAll(s1, <<"@">>, M_AT)
             s3 == ReplaceAll(s2, <<"#">>, M_HASH)
             s4 == ReplaceAll(s3, <<"$">>, M_DOLLAR)
             s5 == ReplaceAll(s4, <<"[">>, M_LBRACKET)
         IN  ReplaceAll(s5, <<"]">>, M_RBRACKET)

decodeUsernameFromFirebase(encodedUsername) ==
    IF encodedUsername = <<>> THEN encodedUsername
    ELSE LET s1 == ReplaceAll(encodedUsername, M_DOT, <<".">>)
             s2 == ReplaceAll(s1, M_AT, <<"@">>)
             s3 == ReplaceAll(s2, M_HASH, <<"#">>)
             s4 == ReplaceAll(s3, M_DOLLAR, <<"$">>)
             s5 == ReplaceAll(s4, M_LBRACKET, <<"[">>)
         IN  ReplaceAll(s5, M_RBRACKET, <<"]">>)

-----------------------------------------------------------------------------
(* Signup validation *)

MinUsernameLen == 3
MaxUsernameLen == 20
MinPasswordLen == 6

\* the character class [a-zA-Z0-9_]
WordChars ==
    {AsciiOrder[i] : i \in CharCode("0")..CharCode("9")}
        \cup {AsciiOrder[i] : i \in CharCode("A")..CharCode("Z")}
        \cup {AsciiOrder[i] : i \in CharCode("a")..CharCode("z")}
        \cup {"_"}

\* the pattern written as {3,} : no upper limit on the length
usernameRegexNoUpperLimit(username) ==
    /\ Len(username) >= MinUsernameLen
    /\ \A i \in 1..Len(username) : username[i] \in WordChars

\* /^[a-zA-Z0-9_]{3,20}$/.test(username)
usernameRegex(username) ==
    /\ Len(username) >= MinUsernameLen
    /\ Len(username) <= MaxUsernameLen
    /\ \A i \in 1..Len(username) : username[i] \in WordChars

-----------------------------------------------------------------------------
(* The store: a tree whose leaves are the values. db maps the path of every   *)
(* leaf to its value; a node exists exactly when some leaf lies at or below it *)

EmptyMap == [x \in {} |-> 0]

IsPrefix(p, q) == Len(p) <= Len(q) /\ SubSeq(q, 1, Len(p)) = p

\* db.ref(pathString): the path is cut at "/" and empty pieces are dropped
RECURSIVE SplitFrom(_, _, _)
SplitFrom(s, i, piece) ==
    IF i > Len(s) THEN (IF piece = <<>> THEN <<>> ELSE <<piece>>)
    ELSE IF s[i] = "/"
         THEN (IF piece = <<>> THEN <<>> ELSE <<piece>>) \o SplitFrom(s, i + 1, <<>>)
         ELSE SplitFrom(s, i + 1, Append(piece, s[i]))

ref(pathString) == SplitFrom(pathString, 1, <<>>)

\* snapshot.exists()
exists(d, p) == \E q \in DOMAIN d : IsPrefix(p, q)

\* snapshot.val(): the subtree at p, as relative path -> leaf value
val(d, p) ==
    LET below == {q \in DOMAIN d : IsPrefix(p, q)}
    IN  [r \in {SubSeq(q, Len(p) + 1, Len(q)) : q \in below} |-> d[p \o r]]

\* ref.update(obj) in the place of ref.set(obj): what obj does not name stays
setMerging(d, p, obj) ==
    LET kept == {q \in DOMAIN d : ~IsPrefix(q, p) /\ q \notin {p \o r : r \in DOMAIN obj}}
    IN  [q \in kept \cup {p \o r : r \in DOMAIN obj} |->
            IF q \in kept THEN d[q] ELSE obj[SubSeq(q, Len(p) + 1, Len(q))]]

\* ref.set(obj): obj replaces the subtree at p, and a leaf above p gives way
set(d, p, obj) ==
    LET kept == {q \in DOMAIN d : ~IsPrefix(p, q) /\ ~IsPrefix(q, p)}
    IN  [q \in kept \cup {p \o r : r \in DOMAIN obj} |->
            IF IsPrefix(p, q) THEN obj[SubSeq(q, Len(p) + 1, Len(q))] ELSE d[q]]

\* ref.remove()
remove(d, p) == [q \in {q \in DOMAIN d : ~IsPrefix(p, q)} |-> d[q]]

\* obj.field of a snapshot value
field(obj, name) == val(obj, <<name>>)

\* whether obj.field is set to anything
has(obj, name) == exists(obj, <<name>>)

\* an object with the one property name: value, value itself a leaf or an object
prop(name, value) == [r \in {<<name>> \o k : k \in DOMAIN value} |-> value[SubSeq(r, 2, Len(r))]]

\* a leaf value as a snapshot value
leaf(v) == [r \in {<<>>} |-> v]

-----------------------------------------------------------------------------
(* Names the code writes into paths and objects *)

S_users == <<"u", "s", "e", "r", "s">>
S_videos == <<"v", "i", "d", "e", "o", "s">>
S_youtubeUrl == <<"y", "o", "u", "t", "u", "b", "e", "U", "r", "l">>
S_videoId == <<"v", "i", "d", "e", "o", "I", "d">>
S_title == <<"t", "i", "t", "l", "e">>
S_username == <<"u", "s", "e", "r", "n", "a", "m", "e">>
S_hotcues == <<"h", "o", "t", "c", "u", "e", "s">>
S_updatedAt == <<"u", "p", "d", "a", "t", "e", "d", "A", "t">>
S_createdAt == <<"c", "r", "e", "a", "t", "e", "d", "A", "t">>
S_password == <<"p", "a", "s", "s", "w", "o", "r", "d">>

\* `users/${encodedUsername}/videos/${videoId}`
videoRefPath(encodedUsername, videoId) ==
    ref(S_users \o <<"/">> \o encodedUsername \o <<"/">> \o S_videos \o <<"/">> \o videoId)

\* `users/${encodedUsername}/videos`
videosRefPath(encodedUsername) ==
    ref(S_users \o <<"/">> \o encodedUsername \o <<"/">> \o S_videos)

\* `videos/${videoId}`
globalVideoRefPath(videoId) == ref(S_videos \o <<"/">> \o videoId)

\* `users/${encodedUsername}`
userRefPath(encodedUsername) == ref(S_users \o <<"/">> \o encodedUsername)

-----------------------------------------------------------------------------
(* Requests, responses, handler locals *)

Procs == 1..NumProcs

OpPostVideos == "POST /videos"
OpGetVideos == "GET /videos"
OpGetVideo == "GET /videos/:videoId"
OpDeleteVideo == "DELETE /videos/:videoId"
OpLogin == "POST /login"
OpSignup == "POST /signup"

\* a missing string field is the empty string: both are falsy to the handlers
Request(op, username, videoId, youtubeUrl, hotcues, password) ==
    [op |-> op, username |-> username, videoId |-> videoId,
     youtubeUrl |-> youtubeUrl, hotcues |-> hotcues, password |-> password]

\* req.body.hotcues: left out, an object, or a value that is truthy and no object
HcOmitted == [type |-> "undefined", map |-> EmptyMap]
HcObject(map) == [type |-> "object", map |-> map]
HcString == [type |-> "string", map |-> EmptyMap]

NoRequest == Request("", <<>>, <<>>, "", HcOmitted, <<>>)

NoType == "(no type)"
NoResponse == [status |-> 0, error |-> "", type |-> NoType, body |-> EmptyMap]
Response(status, error, type, body) ==
    [status |-> status, error |-> error, type |-> type, body |-> body]

\* what axios.get has not been asked yet
NoLookup == [kind |-> "none", title |-> ""]

\* calls: the store calls POST /videos has made, in order
NoLocals ==
    [title |-> "", existing |-> EmptyMap, reads |-> 0, writes |-> 0,
     lookup |-> NoLookup, calls |-> <<>>]

StoreCall(call, path, ok) == [call |-> call, path |-> path, ok |-> ok]

NoSave == [saved |-> FALSE, videoId |-> <<>>, hotcues |-> EmptyMap]

\* the times the store can assign to a write arriving now
WriteTimes == {t \in {now, now + 1} : t <= MaxTime}

\* a request arrives at slot p, which is free
Begin(p, r) ==
    /\ pc[p] \in {"idle", "done"}
    /\ req' = [req EXCEPT ![p] = r]
    /\ pre' = [pre EXCEPT ![p] = [db |-> db, accounts |-> accounts]]
    /\ lastSaved' = [lastSaved EXCEPT ![p] =
            IF pc[p] = "done" /\ req[p].op = OpPostVideos /\ resp[p].status = 200
            THEN [saved |-> TRUE, videoId |-> req[p].videoId, hotcues |-> req[p].hotcues.map]
            ELSE NoSave]

\* res.status(..).json(..): the handler is through
Reply(p, response) ==
    /\ resp' = [resp EXCEPT ![p] = response]
    /\ pc' = [pc EXCEPT ![p] = "done"]

\* the handler waits for the store (or another promise) at label
Await(p, label) ==
    /\ pc' = [pc EXCEPT ![p] = label]
    /\ resp' = [resp EXCEPT ![p] = NoResponse]

-----------------------------------------------------------------------------
(* Title lookup *)

UntitledVideo == "Untitled Video"

\* outcomes of axios.get on the oEmbed endpoint
LookupTitle(title) == [kind |-> "ok", title |-> title]
LookupNoTitle == [kind |-> "ok", title |-> ""]
LookupFailed == [kind |-> "error", title |-> ""]
\* no answer within timeout: 5000, axios rejects
LookupTimeout == [kind |-> "timeout", title |-> ""]
\* a status outside 2xx, axios rejects
LookupStatus == [kind |-> "status", title |-> ""]
\* a 2xx answer whose body is no JSON object: response.data.title is undefined
LookupMalformed == [kind |-> "malformed", title |-> ""]

\* what the title is when the lookup's rejection leaves the function
Thrown == "(thrown)"

\* the function without its try/catch: a rejected lookup leaves it as an exception
getYouTubeVideoTitleNoCatch(lookup) ==
    IF lookup.kind \in {"ok", "malformed"}
    THEN (IF lookup.title # "" THEN lookup.title ELSE UntitledVideo)
    ELSE Thrown

getYouTubeVideoTitle(lookup) ==
    IF lookup.kind = "ok"
    THEN (IF lookup.title # "" THEN lookup.title ELSE UntitledVideo)
    ELSE UntitledVideo

-----------------------------------------------------------------------------
(* POST /videos *)

\* JavaScript truthiness of a timestamp field read from a snapshot
truthy(obj) == obj # EmptyMap /\ (<<>> \in DOMAIN obj => obj[<<>>] # 0)

\* the upsert without the carry-forward: createdAt is stamped on every save
videoDataAlwaysStamped(r, title, existingVideo, t) ==
    prop(S_youtubeUrl, leaf(r.youtubeUrl))
        @@ prop(S_videoId, leaf(r.videoId))
        @@ prop(S_title, leaf(title))
        @@ prop(S_username, leaf(r.username))
        @@ prop(S_hotcues, r.hotcues.map)
        @@ prop(S_updatedAt, leaf(t))
        @@ prop(S_createdAt, leaf(t))

\* the upsert testing only !existingVideo: a record without createdAt stays without
videoDataNoBackfill(r, title, existingVideo, t) ==
    prop(S_youtubeUrl, leaf(r.youtubeUrl))
        @@ prop(S_videoId, leaf(r.videoId))
        @@ prop(S_title, leaf(title))
        @@ prop(S_username, leaf(r.username))
        @@ prop(S_hotcues, r.hotcues.map)
        @@ prop(S_updatedAt, leaf(t))
        @@ prop(S_createdAt,
                IF existingVideo = EmptyMap THEN leaf(t) ELSE field(existingVideo, S_createdAt))

\* the videoData object as the store receives it, ServerValue.TIMESTAMP being t
videoData(r, title, existingVideo, t) ==
    prop(S_youtubeUrl, leaf(r.youtubeUrl))
        @@ prop(S_videoId, leaf(r.videoId))
        @@ prop(S_title, leaf(title))
        @@ prop(S_username, leaf(r.username))
        @@ prop(S_hotcues, r.hotcues.map)
        @@ prop(S_updatedAt, leaf(t))
        @@ prop(S_createdAt,
                IF existingVideo = EmptyMap \/ ~truthy(field(existingVideo, S_createdAt))
                THEN leaf(t)
                ELSE field(existingVideo, S_createdAt))

PostVideos(p, r, lookup) ==
    /\ r.op = OpPostVideos
    /\ Begin(p, r)
    /\ IF r.youtubeUrl = "" \/ r.videoId = <<>>
       THEN /\ Reply(p, Response(400, "Missing required fields", NoType, EmptyMap))
            /\ loc' = [loc EXCEPT ![p] = NoLocals]
       ELSE IF r.username = <<>>
       THEN /\ Reply(p, Response(400, "Missing required field: username", NoType, EmptyMap))
            /\ loc' = [loc EXCEPT ![p] = NoLocals]
       ELSE IF r.hotcues.type \notin {"undefined", "object"}
       THEN /\ Reply(p, Response(400, "Invalid hotcues format", NoType, EmptyMap))
            /\ loc' = [loc EXCEPT ![p] = NoLocals]
       ELSE LET title == getYouTubeVideoTitle(lookup)
            IN  /\ loc' = [loc EXCEPT ![p] = [NoLocals EXCEPT !.title = title, !.lookup = lookup]]
                /\ IF title = Thrown
                   THEN Reply(p, Response(500, "Internal server error", "SERVER_ERROR", EmptyMap))
                   ELSE Await(p, "pv_read")
    /\ UNCHANGED <<db, now, accounts, encVars>>

\* the handler going on to the write after a read that failed
PostVideosReadSwallowed(p, ok) ==
    /\ pc[p] = "pv_read"
    /\ LET videoRef == videoRefPath(encodeUsernameForFirebase(req[p].username), req[p].videoId)
       IN  loc' = [loc EXCEPT ![p].existing = IF ok THEN val(db, videoRef) ELSE EmptyMap,
                              ![p].reads = @ + 1,
                              ![p].calls = Append(@, StoreCall("once", videoRef, ok))]
    /\ Await(p, "pv_write")
    /\ UNCHANGED <<db, now, req, pre, lastSaved, accounts, encVars>>

PostVideosRead(p, ok) ==
    /\ pc[p] = "pv_read"
    /\ LET videoRef == videoRefPath(encodeUsernameForFirebase(req[p].username), req[p].videoId)
       IN  IF ok
           THEN /\ loc' = [loc EXCEPT ![p].existing = val(db, videoRef),
                                      ![p].reads = @ + 1,
                                      ![p].calls = Append(@, StoreCall("once", videoRef, TRUE))]
                /\ Await(p, "pv_write")
           ELSE /\ loc' = [loc EXCEPT ![p].reads = @ + 1,
                                      ![p].calls = Append(@, StoreCall("once", videoRef, FALSE))]
                /\ Reply(p, Response(500, "Internal server error", "SERVER_ERROR", EmptyMap))
    /\ UNCHANGED <<db, now, req, pre, lastSaved, accounts, encVars>>

PostVideosWrite(p, ok, t) ==
    /\ pc[p] = "pv_write"
    /\ t \in WriteTimes
    /\ LET videoRef == videoRefPath(encodeUsernameForFirebase(req[p].username), req[p].videoId)
       IN  /\ loc' = [loc EXCEPT ![p].writes = @ + 1,
                                 ![p].calls = Append(@, StoreCall("set", videoRef, ok))]
           /\ IF ok
              THEN /\ db' = set(db, videoRef, videoData(req[p], loc[p].title, loc[p].existing, t))
                   /\ now' = t
                   /\ Reply(p, Response(200, "", NoType, prop(S_videoId, leaf(req[p].videoId))))
              ELSE /\ UNCHANGED <<db, now>>
                   /\ Reply(p, Response(500, "Failed to save to Firebase Realtime Database",
                                        "FIREBASE_ERROR", EmptyMap))
    /\ UNCHANGED <<req, pre, lastSaved, accounts, encVars>>

-----------------------------------------------------------------------------
(* GET /videos *)

\* the names of an object's properties
childKeys(obj) == {r[1] : r \in DOMAIN obj \ {<<>>}}

\* Object.keys(videos): the store hands the children over in key order
RECURSIVE KeysInOrder(_)
KeysInOrder(keys) ==
    IF keys = {} THEN <<>>
    ELSE LET first == CHOOSE k \in keys : \A j \in keys \ {k} : StrLess(k, j)
         IN  <<first>> \o KeysInOrder(keys \ {first})

\* { videoId, ...videos[videoId] }: the stored properties come last and win; a
\* child that is a bare number spreads to nothing
videoEntry(videos, videoId) ==
    LET stored == field(videos, videoId)
    IN  (IF <<>> \in DOMAIN stored THEN EmptyMap ELSE stored) @@ prop(S_videoId, leaf(videoId))

\* a.createdAt || a.updatedAt || 0
sortTime(a) ==
    IF truthy(field(a, S_createdAt)) THEN a[<<S_createdAt>>]
    ELSE IF truthy(field(a, S_updatedAt)) THEN a[<<S_updatedAt>>]
    ELSE 0

\* the comparator turned round, (a, b) => aTime - bTime: oldest first
RECURSIVE InsertByTimeOldestFirst(_, _)
InsertByTimeOldestFirst(sorted, x) ==
    IF sorted = <<>> THEN <<x>>
    ELSE IF sortTime(Head(sorted)) > sortTime(x) THEN <<x>> \o sorted
    ELSE <<Head(sorted)>> \o InsertByTimeOldestFirst(Tail(sorted), x)

\* x takes its place in an array sorted by (a, b) => bTime - aTime, behind its equals
RECURSIVE InsertByTime(_, _)
InsertByTime(sorted, x) ==
    IF sorted = <<>> THEN <<x>>
    ELSE IF sortTime(Head(sorted)) < sortTime(x) THEN <<x>> \o sorted
    ELSE <<Head(sorted)>> \o InsertByTime(Tail(sorted), x)

\* videosArray.sort(..): Array.prototype.sort is stable
RECURSIVE sortVideos(_)
sortVideos(videosArray) ==
    IF videosArray = <<>> THEN <<>>
    ELSE InsertByTime(sortVideos(SubSeq(videosArray, 1, Len(videosArray) - 1)),
                      videosArray[Len(videosArray)])

videosArrayOf(videos) ==
    LET keys == KeysInOrder(childKeys(videos))
    IN  sortVideos([i \in 1..Len(keys) |-> videoEntry(videos, keys[i])])

GetVideos(p, r) ==
    /\ r.op = OpGetVideos
    /\ Begin(p, r)
    /\ loc' = [loc EXCEPT ![p] = NoLocals]
    /\ IF r.username = <<>>
       THEN Reply(p, Response(400, "Missing required query parameter: username", NoType, EmptyMap))
       ELSE Await(p, "gv_read")
    /\ UNCHANGED <<db, now, accounts, encVars>>

GetVideosRead(p, ok) ==
    /\ pc[p] = "gv_read"
    /\ loc' = [loc EXCEPT ![p].reads = @ + 1]
    /\ LET videosRef == videosRefPath(encodeUsernameForFirebase(req[p].username))
       IN  IF ~ok
           THEN Reply(p, Response(500, "Failed to fetch videos", "FIREBASE_ERROR", EmptyMap))
           ELSE IF ~exists(db, videosRef)
           THEN Reply(p, Response(200, "", NoType, <<>>))
           ELSE Reply(p, Response(200, "", NoType, videosArrayOf(val(db, videosRef))))
    /\ UNCHANGED <<db, now, req, pre, lastSaved, accounts, encVars>>

-----------------------------------------------------------------------------
(* GET /videos/:videoId *)

GetVideo(p, r) ==
    /\ r.op = OpGetVideo
    /\ Begin(p, r)
    /\ loc' = [loc EXCEPT ![p] = NoLocals]
    /\ Await(p, "g1_read")
    /\ UNCHANGED <<db, now, accounts, encVars>>

GetVideoRead(p, ok) ==
    /\ pc[p] = "g1_read"
    /\ loc' = [loc EXCEPT ![p].reads = @ + 1]
    /\ LET videoRef == globalVideoRefPath(req[p].videoId)
       IN  IF ~ok
           THEN Reply(p, Response(500, "Failed to fetch video", "FIREBASE_ERROR", EmptyMap))
           ELSE IF ~exists(db, videoRef)
           THEN Reply(p, Response(404, "Video not found", NoType,
                                  prop(S_videoId, leaf(req[p].videoId))))
           ELSE Reply(p, Response(200, "", NoType, val(db, videoRef)))
    /\ UNCHANGED <<db, now, req, pre, lastSaved, accounts, encVars>>

-----------------------------------------------------------------------------
(* DELETE /videos/:videoId *)

DeleteVideo(p, r) ==
    /\ r.op = OpDeleteVideo
    /\ Begin(p, r)
    /\ loc' = [loc EXCEPT ![p] = NoLocals]
    /\ IF r.username = <<>>
       THEN Reply(p, Response(400, "Missing required query parameter: username", NoType, EmptyMap))
       ELSE Await(p, "dv_read")
    /\ UNCHANGED <<db, now, accounts, encVars>>

DeleteVideoRead(p, ok) ==
    /\ pc[p] = "dv_read"
    /\ loc' = [loc EXCEPT ![p].reads = @ + 1]
    /\ LET videoRef == videoRefPath(encodeUsernameForFirebase(req[p].username), req[p].videoId)
       IN  IF ~ok
           THEN Reply(p, Response(500, "Failed to delete video", "FIREBASE_ERROR", EmptyMap))
           ELSE IF ~exists(db, videoRef)
           THEN Reply(p, Response(404, "Video not found", NoType,
                                  prop(S_videoId, leaf(req[p].videoId))))
           ELSE Await(p, "dv_remove")
    /\ UNCHANGED <<db, now, req, pre, lastSaved, accounts, encVars>>

DeleteVideoRemove(p, ok) ==
    /\ pc[p] = "dv_remove"
    /\ loc' = [loc EXCEPT ![p].writes = @ + 1]
    /\ LET videoRef == videoRefPath(encodeUsernameForFirebase(req[p].username), req[p].videoId)
       IN  IF ok
           THEN /\ db' = remove(db, videoRef)
                /\ Reply(p, Response(200, "", NoType, prop(S_videoId, leaf(req[p].videoId))))
           ELSE /\ UNCHANGED db
                /\ Reply(p, Response(500, "Failed to delete video", "FIREBASE_ERROR", EmptyMap))
    /\ UNCHANGED <<now, req, pre, lastSaved, accounts, encVars>>

-----------------------------------------------------------------------------
(* Passwords *)

saltRounds == 10

\* bcrypt.hash(password, saltRounds)
bcryptHash(password, rounds) == [cost |-> rounds, of |-> password]

\* bcrypt.compare rejects unless the hash it is handed is a string
bcryptCompareThrows(hash) == <<>> \notin DOMAIN hash

\* bcrypt.compare(password, hash)
bcryptCompare(password, hash) == hash[<<>>].of = password

-----------------------------------------------------------------------------
(* POST /login *)

Login(p, r) ==
    /\ r.op = OpLogin
    /\ Begin(p, r)
    /\ loc' = [loc EXCEPT ![p] = NoLocals]
    /\ IF r.username = <<>> \/ r.password = <<>>
       THEN Reply(p, Response(400, "Missing required fields", NoType, EmptyMap))
       ELSE Await(p, "li_read")
    /\ UNCHANGED <<db, now, accounts, encVars>>

LoginRead(p, ok) ==
    /\ pc[p] = "li_read"
    /\ loc' = [loc EXCEPT ![p].reads = @ + 1]
    /\ LET userRef == userRefPath(encodeUsernameForFirebase(req[p].username))
           userData == val(db, userRef)
           hash == field(userData, S_password)
       IN  IF ~ok
           THEN Reply(p, Response(500, "Internal server error", "SERVER_ERROR", EmptyMap))
           ELSE IF ~exists(db, userRef)
           THEN Reply(p, Response(401, "No account exists for this user. Please try again!",
                                  "USER_NOT_FOUND", EmptyMap))
           ELSE IF bcryptCompareThrows(hash)
           THEN Reply(p, Response(500, "Internal server error", "SERVER_ERROR", EmptyMap))
           ELSE IF ~bcryptCompare(req[p].password, hash)
           THEN Reply(p, Response(401, "Invalid password. Please try again!",
                                  "INVALID_PASSWORD", EmptyMap))
           ELSE Reply(p, Response(200, "", NoType, prop(S_username, leaf(req[p].username))))
    /\ UNCHANGED <<db, now, req, pre, lastSaved, accounts, encVars>>

-----------------------------------------------------------------------------
(* POST /signup *)

\* the userData object as the store receives it, ServerValue.TIMESTAMP being t
userDataOf(r, t) ==
    prop(S_username, leaf(r.username))
        @@ prop(S_password, leaf(bcryptHash(r.password, saltRounds)))
        @@ prop(S_createdAt, leaf(t))
        @@ prop(S_updatedAt, leaf(t))

Signup(p, r) ==
    /\ r.op = OpSignup
    /\ Begin(p, r)
    /\ loc' = [loc EXCEPT ![p] = NoLocals]
    /\ IF r.username = <<>> \/ r.password = <<>>
       THEN Reply(p, Response(400, "Missing required fields", NoType, EmptyMap))
       ELSE IF ~usernameRegex(r.username)
       THEN Reply(p, Response(400, "Invalid username format", NoType, EmptyMap))
       ELSE IF Len(r.password) < MinPasswordLen
       THEN Reply(p, Response(400, "Invalid password", NoType, EmptyMap))
       ELSE Await(p, "su_read")
    /\ UNCHANGED <<db, now, accounts, encVars>>

SignupRead(p, ok) ==
    /\ pc[p] = "su_read"
    /\ loc' = [loc EXCEPT ![p].reads = @ + 1]
    /\ LET userRef == userRefPath(encodeUsernameForFirebase(req[p].username))
       IN  IF ~ok
           THEN Reply(p, Response(500, "Internal server error", "SERVER_ERROR", EmptyMap))
           ELSE IF exists(db, userRef)
           THEN Reply(p, Response(409, "Username already taken", "USERNAME_EXISTS", EmptyMap))
           ELSE Await(p, "su_write")
    /\ UNCHANGED <<db, now, req, pre, lastSaved, accounts, encVars>>

SignupWrite(p, ok, t) ==
    /\ pc[p] = "su_write"
    /\ t \in WriteTimes
    /\ loc' = [loc EXCEPT ![p].writes = @ + 1]
    /\ LET userRef == userRefPath(encodeUsernameForFirebase(req[p].username))
       IN  IF ok
           THEN /\ db' = set(db, userRef, userDataOf(req[p], t))
                /\ now' = t
                /\ accounts' = (req[p].username :> req[p].password) @@ accounts
                /\ Reply(p, Response(201, "", NoType, prop(S_username, leaf(req[p].username))))
           ELSE /\ UNCHANGED <<db, now, accounts>>
                /\ Reply(p, Response(500, "Internal server error", "SERVER_ERROR", EmptyMap))
    /\ UNCHANGED <<req, pre, lastSaved, encVars>>

-----------------------------------------------------------------------------
(* Encoder harness: encode a username, then decode the token *)

EncAlphabet == {"a", "_", "D", "O", "T", "."}

RECURSIVE StringsUpTo(_, _)
StringsUpTo(alphabet, n) ==
    IF n = 0 THEN {<<>>}
    ELSE LET shorter == StringsUpTo(alphabet, n - 1)
         IN  shorter \cup {Append(s, c) : s \in shorter, c \in alphabet}

EncInputs == StringsUpTo(EncAlphabet, MaxLen)

\* the second username of a pair: at most one character
PairInputs == StringsUpTo(EncAlphabet, 1)

Encode ==
    /\ phase = "raw"
    /\ token' = encodeUsernameForFirebase(raw)
    /\ phase' = "encoded"
    /\ UNCHANGED <<raw, decoded, raw2, token2, apiVars>>

Decode ==
    /\ phase = "encoded"
    /\ decoded' = decodeUsernameFromFirebase(token)
    /\ phase' = "decoded"
    /\ UNCHANGED <<raw, token, raw2, token2, apiVars>>

\* two usernames are encoded side by side
EncodePair ==
    /\ phase = "raw"
    /\ token' = encodeUsernameForFirebase(raw)
    /\ token2' = encodeUsernameForFirebase(raw2)
    /\ phase' = "encoded"
    /\ UNCHANGED <<raw, raw2, decoded, apiVars>>

-----------------------------------------------------------------------------
(* Inputs *)

Alice == <<"a", "b", "c", "_", "1", "2", "3">>
V1 == <<"v", "1">>
V2 == <<"v", "2">>
V3 == <<"v", "3">>
Url == "https://youtube.com/watch?v=abc123"
HcQ == HcObject(prop(<<"q">>, leaf(125)))
HcW == HcObject(prop(<<"w">>, leaf(452)))

\* records an earlier revision of the service left behind: no createdAt
LegacyV1 ==
    prop(S_youtubeUrl, leaf(Url)) @@ prop(S_videoId, leaf(V1))
        @@ prop(S_title, leaf("Old")) @@ prop(S_hotcues, HcW.map)
        @@ prop(S_updatedAt, leaf(1))
LegacyV3 ==
    prop(S_youtubeUrl, leaf(Url)) @@ prop(S_videoId, leaf(V3)) @@ prop(S_title, leaf("Older"))

\* a record as the service writes it now
StampedV1 == LegacyV1 @@ prop(S_createdAt, leaf(1))

LegacyStores ==
    LET withV1 == set(EmptyMap, videoRefPath(Alice, V1), LegacyV1)
    IN  {EmptyMap, withV1,
         set(EmptyMap, videoRefPath(Alice, V3), LegacyV3),
         set(withV1, videoRefPath(Alice, V3), LegacyV3)}

\* POST /videos requests, each with the outcome of its title lookup
VideoPosts ==
    {<<Request(OpPostVideos, Alice, v, Url, c[1], <<>>), c[2]>> :
        v \in {V1, V2},
        c \in {<<HcQ, LookupTitle("Title")>>, <<HcW, LookupFailed>>, <<HcOmitted, LookupNoTitle>>}}
        \cup {<<Request(OpPostVideos, Alice, V1, "", HcQ, <<>>), LookupTitle("Title")>>,
              <<Request(OpPostVideos, Alice, <<>>, Url, HcQ, <<>>), LookupTitle("Title")>>,
              <<Request(OpPostVideos, <<>>, V1, Url, HcQ, <<>>), LookupTitle("Title")>>,
              <<Request(OpPostVideos, Alice, V1, Url, HcString, <<>>), LookupTitle("Title")>>}

VideoLists == {Request(OpGetVideos, u, <<>>, "", HcOmitted, <<>>) : u \in {<<>>, Alice}}

VideoGets == {Request(OpGetVideo, <<>>, v, "", HcOmitted, <<>>) : v \in {V1, V2}}

VideoDeletes ==
    {Request(OpDeleteVideo, u, v, "", HcOmitted, <<>>) : u \in {<<>>, Alice}, v \in {V1, V3}}

Ab == <<"a", "b">>
Bob == <<"b", "o", "b">>
ADotC == <<"a", ".", "c">>
Name20 == [i \in 1..MaxUsernameLen |-> "x"]
Name21 == [i \in 1..(MaxUsernameLen + 1) |-> "x"]
Pw5 == <<"1", "2", "3", "4", "5">>
Pw6 == <<"1", "2", "3", "4", "5", "6">>
Pw6b == <<"s", "e", "c", "r", "e", "t">>

Signups ==
    {Request(OpSignup, i[1], <<>>, "", HcOmitted, i[2]) :
        i \in {<<Alice, Pw6>>, <<Alice, Pw5>>, <<Alice, <<>> >>, << <<>>, Pw6>>,
               <<Ab, Pw6>>, <<Bob, Pw6b>>, <<ADotC, Pw6>>, <<Name20, Pw6>>, <<Name21, Pw6>>}}

Logins ==
    {Request(OpLogin, i[1], <<>>, "", HcOmitted, i[2]) :
        i \in {<<Alice, Pw6>>, <<Alice, Pw6b>>, <<Alice, <<>> >>, << <<>>, Pw6>>, <<Bob, Pw6>>}}

AuthSignups ==
    {Request(OpSignup, Alice, <<>>, "", HcOmitted, pw) : pw \in {Pw6, Pw6b}}

\* usernames that reach into Alice's account node
Intruders == {Alice \o <<"/">> \o f : f \in {S_password, S_username, S_createdAt, S_updatedAt}}

AuthPosts ==
    {Request(OpPostVideos, u, V1, Url, HcOmitted, <<>>) : u \in {Alice, Alice \o <<"/">> \o S_password}}

AuthDeletes ==
    {Request(OpDeleteVideo, u, V1, "", HcOmitted, <<>>) : u \in {Alice, Alice \o <<"/">> \o S_password}}

IntruderPosts == {Request(OpPostVideos, u, V1, Url, HcOmitted, <<>>) : u \in Intruders}

IntruderDeletes == {Request(OpDeleteVideo, u, V1, "", HcOmitted, <<>>) : u \in Intruders}

Lookups ==
    {LookupTitle("Title"), LookupNoTitle, LookupFailed, LookupTimeout, LookupStatus, LookupMalformed}

LookupPosts ==
    {<<Request(OpPostVideos, Alice, V1, Url, hc, <<>>), l>> : hc \in {HcQ, HcOmitted}, l \in Lookups}
        \cup {<<Request(OpPostVideos, Alice, V1, "", HcQ, <<>>), LookupTitle("Title")>>,
              <<Request(OpPostVideos, <<>>, V1, Url, HcQ, <<>>), LookupTimeout>>,
              <<Request(OpPostVideos, Alice, V1, Url, HcString, <<>>), LookupStatus>>}

RacePosts == {Request(OpPostVideos, Alice, V1, Url, hc, <<>>) : hc \in {HcQ, HcW}}

\* DELETE /videos/%2F: the router decodes the parameter to "/"
Slash == <<"/">>

ShelfPosts == {Request(OpPostVideos, Alice, v, Url, HcQ, <<>>) : v \in {V1, V2}}

ShelfDeletes ==
    {Request(OpDeleteVideo, u, v, "", HcOmitted, <<>>) : u \in {<<>>, Alice}, v \in {V1, V2, Slash}}

-----------------------------------------------------------------------------
(* Specifications *)

InitApi(stores) ==
    /\ db \in stores
    /\ now = 1
    /\ pc = [p \in Procs |-> "idle"]
    /\ req = [p \in Procs |-> NoRequest]
    /\ loc = [p \in Procs |-> NoLocals]
    /\ resp = [p \in Procs |-> NoResponse]
    /\ pre = [p \in Procs |-> [db |-> EmptyMap, accounts |-> EmptyMap]]
    /\ lastSaved = [p \in Procs |-> NoSave]
    /\ accounts = EmptyMap

InitHarness ==
    /\ raw = <<>>
    /\ token = <<>>
    /\ decoded = <<>>
    /\ phase = "off"
    /\ raw2 = <<>>
    /\ token2 = <<>>

\* the video endpoints, one request at a time, the store answering every call
Init == InitApi(LegacyStores) /\ InitHarness

Next ==
    \/ \E i \in VideoPosts : PostVideos(1, i[1], i[2])
    \/ PostVideosRead(1, TRUE)
    \/ \E t \in WriteTimes : PostVideosWrite(1, TRUE, t)
    \/ \E r \in VideoLists : GetVideos(1, r)
    \/ GetVideosRead(1, TRUE)
    \/ \E r \in VideoGets : GetVideo(1, r)
    \/ GetVideoRead(1, TRUE)
    \/ \E r \in VideoDeletes : DeleteVideo(1, r)
    \/ DeleteVideoRead(1, TRUE)
    \/ DeleteVideoRemove(1, TRUE)

Spec == Init /\ [][Next]_vars

\* signup and login, one request at a time
InitSignup == InitApi({EmptyMap}) /\ InitHarness

NextSignup ==
    \/ \E r \in Signups : Signup(1, r)
    \/ SignupRead(1, TRUE)
    \/ \E t \in WriteTimes : SignupWrite(1, TRUE, t)
    \/ \E r \in Logins : Login(1, r)
    \/ LoginRead(1, TRUE)

SpecSignup == InitSignup /\ [][NextSignup]_vars

\* one account, logins, and video saves and deletes under the account's name
\* and under a name that holds a "/", one request at a time
NextAuth ==
    \/ \E r \in AuthSignups : Signup(1, r)
    \/ SignupRead(1, TRUE)
    \/ \E t \in WriteTimes : SignupWrite(1, TRUE, t)
    \/ \E r \in Logins : Login(1, r)
    \/ LoginRead(1, TRUE)
    \/ \E r \in AuthPosts : PostVideos(1, r, LookupTitle("Title"))
    \/ PostVideosRead(1, TRUE)
    \/ \E t \in WriteTimes : PostVideosWrite(1, TRUE, t)
    \/ \E r \in AuthDeletes : DeleteVideo(1, r)
    \/ DeleteVideoRead(1, TRUE)
    \/ DeleteVideoRemove(1, TRUE)

SpecAuth == InitSignup /\ [][NextAuth]_vars

\* one account, and video saves and deletes under names that reach into it
NextIntruder ==
    \/ Signup(1, Request(OpSignup, Alice, <<>>, "", HcOmitted, Pw6))
    \/ SignupRead(1, TRUE)
    \/ \E t \in WriteTimes : SignupWrite(1, TRUE, t)
    \/ \E r \in IntruderPosts : PostVideos(1, r, LookupTitle("Title"))
    \/ PostVideosRead(1, TRUE)
    \/ \E t \in WriteTimes : PostVideosWrite(1, TRUE, t)
    \/ \E r \in IntruderDeletes : DeleteVideo(1, r)
    \/ DeleteVideoRead(1, TRUE)
    \/ DeleteVideoRemove(1, TRUE)

SpecIntruder == InitSignup /\ [][NextIntruder]_vars

\* one account with its videos, and deletes, one request at a time
NextShelf ==
    \/ Signup(1, Request(OpSignup, Alice, <<>>, "", HcOmitted, Pw6))
    \/ SignupRead(1, TRUE)
    \/ \E t \in WriteTimes : SignupWrite(1, TRUE, t)
    \/ \E r \in ShelfPosts : PostVideos(1, r, LookupTitle("Title"))
    \/ PostVideosRead(1, TRUE)
    \/ \E t \in WriteTimes : PostVideosWrite(1, TRUE, t)
    \/ \E r \in ShelfDeletes : DeleteVideo(1, r)
    \/ DeleteVideoRead(1, TRUE)
    \/ DeleteVideoRemove(1, TRUE)

SpecShelf == InitSignup /\ [][NextShelf]_vars

\* POST /videos with every outcome of the title lookup, the store failing or
\* answering each call, one request at a time
NextFaulty ==
    \/ \E i \in LookupPosts : PostVideos(1, i[1], i[2])
    \/ \E ok \in BOOLEAN : PostVideosRead(1, ok)
    \/ \E ok \in BOOLEAN, t \in WriteTimes : PostVideosWrite(1, ok, t)

SpecFaulty == InitSignup /\ [][NextFaulty]_vars

\* POST /videos requests on one key, one to a slot, in flight together: the
\* steps of the handlers interleave at their store calls
InitRace ==
    /\ InitApi({EmptyMap,
                set(EmptyMap, videoRefPath(Alice, V1), LegacyV1),
                set(EmptyMap, videoRefPath(Alice, V1), StampedV1)})
    /\ InitHarness

NextRace ==
    \E p \in Procs :
        \/ \E r \in RacePosts : pc[p] = "idle" /\ PostVideos(p, r, LookupTitle("Title"))
        \/ PostVideosRead(p, TRUE)
        \/ \E t \in WriteTimes : PostVideosWrite(p, TRUE, t)

SpecRace == InitRace /\ [][NextRace]_vars

\* signups and a login for one name, a video save under that name and a delete
\* under another name, one request to a slot, in flight together
InitCrowd == InitApi({EmptyMap, set(EmptyMap, videoRefPath(Bob, V2), StampedV1)}) /\ InitHarness

NextCrowd ==
    \E p \in Procs :
        \/ \E r \in AuthSignups : pc[p] = "idle" /\ Signup(p, r)
        \/ SignupRead(p, TRUE)
        \/ \E t \in WriteTimes : SignupWrite(p, TRUE, t)
        \/ pc[p] = "idle" /\ Login(p, Request(OpLogin, Alice, <<>>, "", HcOmitted, Pw6))
        \/ LoginRead(p, TRUE)
        \/ pc[p] = "idle" /\ PostVideos(p, Request(OpPostVideos, Alice, V1, Url, HcQ, <<>>),
                                        LookupTitle("Title"))
        \/ PostVideosRead(p, TRUE)
        \/ \E t \in WriteTimes : PostVideosWrite(p, TRUE, t)
        \/ pc[p] = "idle" /\ DeleteVideo(p, Request(OpDeleteVideo, Bob, V2, "", HcOmitted, <<>>))
        \/ DeleteVideoRead(p, TRUE)
        \/ DeleteVideoRemove(p, TRUE)

SpecCrowd == InitCrowd /\ [][NextCrowd]_vars

\* a delete and saves on one key, one request to a slot, in flight together
InitUndo ==
    /\ InitApi({EmptyMap, set(EmptyMap, videoRefPath(Alice, V1), StampedV1)})
    /\ InitHarness

NextUndo ==
    \E p \in Procs :
        \/ \E r \in RacePosts : pc[p] = "idle" /\ PostVideos(p, r, LookupTitle("Title"))
        \/ PostVideosRead(p, TRUE)
        \/ \E t \in WriteTimes : PostVideosWrite(p, TRUE, t)
        \/ pc[p] = "idle" /\ DeleteVideo(p, Request(OpDeleteVideo, Alice, V1, "", HcOmitted, <<>>))
        \/ DeleteVideoRead(p, TRUE)
        \/ DeleteVideoRemove(p, TRUE)

SpecUndo == InitUndo /\ [][NextUndo]_vars

\* the encoder on its own
InitEnc ==
    /\ InitApi({EmptyMap})
    /\ raw \in EncInputs
    /\ token = <<>>
    /\ decoded = <<>>
    /\ phase = "raw"
    /\ raw2 = <<>>
    /\ token2 = <<>>

NextEnc == Encode \/ Decode

SpecEnc == InitEnc /\ [][NextEnc]_vars

\* the encoder on two usernames
InitEncPair ==
    /\ InitApi({EmptyMap})
    /\ raw \in EncInputs
    /\ raw2 \in PairInputs
    /\ token = <<>>
    /\ token2 = <<>>
    /\ decoded = <<>>
    /\ phase = "raw"

NextEncPair == EncodePair

SpecEncPair == InitEncPair /\ [][NextEncPair]_vars

-----------------------------------------------------------------------------
(* Properties *)

\* slot p has answered a request of kind op
Served(p, op) == pc[p] = "done" /\ req[p].op = op

\* the store key of the video request at slot p
keyOf(p) == videoRefPath(encodeUsernameForFirebase(req[p].username), req[p].videoId)

\* the account node of the request at slot p
accountOf(p) == userRefPath(encodeUsernameForFirebase(req[p].username))

\* C1: a successful POST /videos on a key whose record has a createdAt keeps that
\* createdAt and sets updatedAt to the time of this write, not earlier than the
\* updatedAt it replaces
C1_CreatedAtCarriedForward ==
    \A p \in Procs :
        (Served(p, OpPostVideos) /\ resp[p].status = 200 /\ has(val(pre[p].db, keyOf(p)), S_createdAt)) =>
            LET before == val(pre[p].db, keyOf(p))
                after == val(db, keyOf(p))
            IN  /\ field(after, S_createdAt) = field(before, S_createdAt)
                /\ field(after, S_updatedAt) = leaf(now)
                /\ has(before, S_updatedAt) => before[<<S_updatedAt>>] <= after[<<S_updatedAt>>]

\* C1 witness: a record is saved again with other hotcues at a later server time
C1_Witness ==
    \E p \in Procs :
        /\ Served(p, OpPostVideos) /\ resp[p].status = 200
        /\ has(val(pre[p].db, keyOf(p)), S_createdAt)
        /\ field(val(pre[p].db, keyOf(p)), S_hotcues) # req[p].hotcues.map
        /\ val(pre[p].db, keyOf(p))[<<S_updatedAt>>] < val(db, keyOf(p))[<<S_updatedAt>>]
        /\ val(db, keyOf(p))[<<S_createdAt>>] < val(db, keyOf(p))[<<S_updatedAt>>]

\* C2: a GET /videos/v that follows a POST /videos answered 200 for v answers 200
\* with the saved record: the posted hotcues and a title
C2_GetReturnsSavedVideo ==
    \A p \in Procs :
        (Served(p, OpGetVideo) /\ lastSaved[p].saved /\ lastSaved[p].videoId = req[p].videoId) =>
            /\ resp[p].status = 200
            /\ field(resp[p].body, S_hotcues) = lastSaved[p].hotcues
            /\ has(resp[p].body, S_title)

\* C3: decoding the encoded username gives the username back, for every username
\* the signup pattern accepts
C3_DecodeInvertsEncode ==
    (phase = "decoded" /\ usernameRegex(raw)) => decoded = raw

\* C4: a successful POST /videos on a key with no record, or with a record that has
\* no createdAt, stores createdAt and updatedAt both equal to the time of the write
C4_FirstSaveStampsBoth ==
    \A p \in Procs :
        (Served(p, OpPostVideos) /\ resp[p].status = 200 /\ ~has(val(pre[p].db, keyOf(p)), S_createdAt)) =>
            /\ field(val(db, keyOf(p)), S_createdAt) = leaf(now)
            /\ field(val(db, keyOf(p)), S_updatedAt) = leaf(now)

\* C4 witness: a save over a record that was there without a createdAt, at a time
\* later than the record's updatedAt
C4_Witness ==
    \E p \in Procs :
        /\ Served(p, OpPostVideos) /\ resp[p].status = 200
        /\ exists(pre[p].db, keyOf(p))
        /\ ~has(val(pre[p].db, keyOf(p)), S_createdAt)
        /\ val(pre[p].db, keyOf(p))[<<S_updatedAt>>] < now

\* C5: a signup for a username that has signed up before, with a valid password,
\* answers 409 USERNAME_EXISTS and leaves the stored user record as it was
C5_SecondSignupConflicts ==
    \A p \in Procs :
        (/\ Served(p, OpSignup)
         /\ req[p].username \in DOMAIN pre[p].accounts
         /\ Len(req[p].password) >= 6) =>
            /\ resp[p].status = 409
            /\ resp[p].type = "USERNAME_EXISTS"
            /\ val(db, accountOf(p)) = val(pre[p].db, accountOf(p))

\* C6: once (u, p) has signed up, a login with (u, p) answers 200 with u and a
\* login with u and another password answers 401 INVALID_PASSWORD, whatever video
\* saves, deletes and logins came between
C6_LoginAfterSignup ==
    \A p \in Procs :
        (/\ Served(p, OpLogin)
         /\ req[p].username \in DOMAIN pre[p].accounts
         /\ req[p].password # <<>>) =>
            IF req[p].password = pre[p].accounts[req[p].username]
            THEN /\ resp[p].status = 200
                 /\ resp[p].body = prop(S_username, leaf(req[p].username))
            ELSE /\ resp[p].status = 401
                 /\ resp[p].type = "INVALID_PASSWORD"

\* C7: a login with a username that never signed up, and a password, answers 401
\* USER_NOT_FOUND, also when videos are saved under that username
C7_LoginUnknownUser ==
    \A p \in Procs :
        (/\ Served(p, OpLogin)
         /\ req[p].username # <<>>
         /\ req[p].password # <<>>
         /\ req[p].username \notin DOMAIN pre[p].accounts) =>
            /\ resp[p].status = 401
            /\ resp[p].type = "USER_NOT_FOUND"

\* the inputs C8 says signup turns away
SignupTurnsAway(r) ==
    \/ r.username = <<>>
    \/ r.password = <<>>
    \/ Len(r.username) < 3
    \/ Len(r.username) > 20
    \/ \E i \in 1..Len(r.username) : r.username[i] \notin WordChars
    \/ Len(r.password) < 6

\* C8: signup answers 400, having neither read nor written the store, exactly for
\* a missing username or password, a username outside ^[a-zA-Z0-9_]{3,20}$ or a
\* password under 6 characters; any other input whose key is unused is stored and
\* answered 201
C8_SignupValidation ==
    \A p \in Procs :
        Served(p, OpSignup) =>
            /\ (resp[p].status = 400) <=> SignupTurnsAway(req[p])
            /\ resp[p].status = 400 =>
                    loc[p].reads = 0 /\ loc[p].writes = 0 /\ db = pre[p].db
            /\ (~SignupTurnsAway(req[p]) /\ ~exists(pre[p].db, accountOf(p))) =>
                    /\ resp[p].status = 201
                    /\ field(val(db, accountOf(p)), S_username) = leaf(req[p].username)
                    /\ <<S_password>> \in DOMAIN val(db, accountOf(p))
                    /\ val(db, accountOf(p))[<<S_password>>].of = req[p].password

\* C8 witness: "abc_123" with a 6-character password is stored and answered 201
C8_Witness ==
    \E p \in Procs :
        /\ Served(p, OpSignup)
        /\ req[p].username = Alice
        /\ Len(req[p].password) = 6
        /\ resp[p].status = 201
        /\ exists(db, accountOf(p))
        /\ ~exists(pre[p].db, accountOf(p))

\* C9: POST /videos answers 400 only when youtubeUrl or videoId is missing or
\* hotcues is no object; a request without a username is accepted
C9_UsernameOptional ==
    \A p \in Procs :
        (Served(p, OpPostVideos) /\ resp[p].status = 400) =>
            \/ req[p].youtubeUrl = ""
            \/ req[p].videoId = <<>>
            \/ req[p].hotcues.type \notin {"undefined", "object"}

\* the time C10 orders a listed record by
listKey(record) ==
    IF has(record, S_createdAt) THEN record[<<S_createdAt>>]
    ELSE IF has(record, S_updatedAt) THEN record[<<S_updatedAt>>]
    ELSE 0

\* C10: GET /videos?username=u answers 200 with exactly the records under
\* users/encode(u)/videos, each once with its videoId, latest first by createdAt,
\* else updatedAt, else 0; 400 without a username; the store is left as it was
C10_ListIsSortedAndComplete ==
    \A p \in Procs :
        Served(p, OpGetVideos) =>
            /\ db = pre[p].db
            /\ IF req[p].username = <<>>
               THEN resp[p].status = 400
               ELSE LET videos == val(db, videosRefPath(encodeUsernameForFirebase(req[p].username)))
                        body == resp[p].body
                    IN  /\ resp[p].status = 200
                        /\ Len(body) = Cardinality(childKeys(videos))
                        /\ \A k \in childKeys(videos) :
                              \E i \in 1..Len(body) :
                                  /\ body[i][<<S_videoId>>] = k
                                  /\ DOMAIN body[i] = DOMAIN field(videos, k) \cup {<<S_videoId>>}
                                  /\ \A f \in DOMAIN field(videos, k) : body[i][f] = field(videos, k)[f]
                        /\ \A i \in 1..(Len(body) - 1) : listKey(body[i]) >= listKey(body[i + 1])

\* C10 witness: three records listed, ordered by a createdAt, then an updatedAt
\* standing in for a missing createdAt, then a record with neither, and not in
\* the order of their ids
C10_Witness ==
    \E p \in Procs :
        /\ Served(p, OpGetVideos) /\ resp[p].status = 200
        /\ Len(resp[p].body) = 3
        /\ has(resp[p].body[1], S_createdAt)
        /\ ~has(resp[p].body[2], S_createdAt) /\ has(resp[p].body[2], S_updatedAt)
        /\ ~has(resp[p].body[3], S_createdAt) /\ ~has(resp[p].body[3], S_updatedAt)
        /\ listKey(resp[p].body[1]) > listKey(resp[p].body[2])
        /\ StrLess(resp[p].body[2][<<S_videoId>>], resp[p].body[1][<<S_videoId>>])

\* the parts of the store that are no video record: every leaf outside a videos node
credentials(d) ==
    [q \in {q \in DOMAIN d : ~(Len(q) >= 3 /\ q[1] = S_users /\ q[3] = S_videos)} |-> d[q]]

\* C11: DELETE /videos/:videoId with a username removes the record at the key and
\* answers 200 with the videoId when the record exists, leaving every other video
\* record and all credentials as they were; it answers 404 and changes nothing
\* when no record exists; without a username it answers 400 and never calls the store
C11_DeleteRemovesOnlyThatRecord ==
    \A p \in Procs :
        Served(p, OpDeleteVideo) =>
            IF req[p].username = <<>>
            THEN resp[p].status = 400 /\ db = pre[p].db /\ loc[p].reads = 0 /\ loc[p].writes = 0
            ELSE IF ~exists(pre[p].db, keyOf(p))
            THEN resp[p].status = 404 /\ db = pre[p].db /\ loc[p].writes = 0
            ELSE /\ resp[p].status = 200
                 /\ resp[p].body = prop(S_videoId, leaf(req[p].videoId))
                 /\ ~exists(db, keyOf(p))
                 /\ credentials(db) = credentials(pre[p].db)
                 /\ \A u \in {Alice}, v \in {V1, V2} :
                        <<u, v>> # <<req[p].username, req[p].videoId>> =>
                            val(db, videoRefPath(encodeUsernameForFirebase(u), v))
                                = val(pre[p].db, videoRefPath(encodeUsernameForFirebase(u), v))

\* C12: whatever the title lookup comes to (a title, an answer without title, a
\* timeout, a status outside 2xx, a malformed answer), getYouTubeVideoTitle returns
\* the resolved title or 'Untitled Video' and does not throw, POST /videos goes on
\* to read and write the store, and only a failing store call makes it answer with
\* an error status
C12_LookupNeverFailsTheSave ==
    \A p \in Procs :
        (Served(p, OpPostVideos) /\ resp[p].status # 400) =>
            /\ loc[p].title =
                    (IF loc[p].lookup.kind = "ok" /\ loc[p].lookup.title # ""
                     THEN loc[p].lookup.title ELSE UntitledVideo)
            /\ loc[p].calls # <<>>
            /\ (\A i \in 1..Len(loc[p].calls) : loc[p].calls[i].ok) =>
                    /\ resp[p].status = 200
                    /\ Len(loc[p].calls) = 2
                    /\ field(val(db, keyOf(p)), S_title) = leaf(loc[p].title)

C12_Witness ==
    /\ Served(1, OpPostVideos)
    /\ resp[1].status = 200
    /\ loc[1].lookup = LookupTimeout
    /\ loc[1].title = UntitledVideo

\* C19: a POST /videos that passes validation reads its key once and then, when the
\* read succeeded, writes that key once; when the read failed it writes nothing; a
\* POST /videos answered 400 makes no store call
C19_OneReadThenOneWrite ==
    \A p \in Procs :
        Served(p, OpPostVideos) =>
            LET calls == loc[p].calls
            IN  IF resp[p].status = 400
                THEN calls = <<>> /\ loc[p].reads = 0 /\ loc[p].writes = 0 /\ db = pre[p].db
                ELSE /\ Len(calls) >= 1
                     /\ calls[1].call = "once" /\ calls[1].path = keyOf(p)
                     /\ loc[p].reads = 1
                     /\ IF calls[1].ok
                        THEN /\ Len(calls) = 2
                             /\ calls[2].call = "set" /\ calls[2].path = keyOf(p)
                             /\ loc[p].writes = 1
                        ELSE Len(calls) = 1 /\ loc[p].writes = 0 /\ db = pre[p].db

C19_Witness ==
    /\ Served(1, OpPostVideos)
    /\ resp[1].status = 500
    /\ Len(loc[1].calls) = 1
    /\ ~loc[1].calls[1].ok
    /\ exists(db, keyOf(1))

\* the type tags the handlers and the error middleware put into error bodies
ErrorTypes ==
    {"FIREBASE_ERROR", "SERVER_ERROR", "USER_NOT_FOUND", "INVALID_PASSWORD",
     "USERNAME_EXISTS", "UNHANDLED_ERROR"}

\* C13: every response with status 400, 401, 404, 409 or 500 carries a type out of
\* the fixed set of tags, and a request is answered once: a slot that has answered
\* holds a response, a slot still waiting for the store holds none
C13_ErrorsCarryType ==
    \A p \in Procs :
        /\ pc[p] = "done" => resp[p].status # 0
        /\ pc[p] \notin {"idle", "done"} => resp[p] = NoResponse
        /\ (pc[p] = "done" /\ resp[p].status \in {400, 401, 404, 409, 500}) =>
                resp[p].type \in ErrorTypes

\* C14 as stated: with POST /videos requests to one key in flight together and no
\* DELETE, once the record at the key has a createdAt no later write changes it
C14_CreatedAtStableUnderRace ==
    [][LET key == videoRefPath(encodeUsernameForFirebase(Alice), V1)
       IN  has(val(db, key), S_createdAt) =>
               field(val(db', key), S_createdAt) = field(val(db, key), S_createdAt)]_vars

\* C14, amended: with POST /videos requests to one key in flight together and no
\* DELETE, a request whose read found a record with a createdAt stores that same
\* createdAt; requests that read the key before a createdAt was stored stamp their
\* own, and the last write decides
C14_ReadCreatedAtIsKept ==
    [][\A p \in Procs :
         (/\ pc[p] = "pv_write" /\ pc'[p] = "done" /\ resp'[p].status = 200
          /\ has(loc[p].existing, S_createdAt)) =>
                field(val(db', keyOf(p)), S_createdAt) = field(loc[p].existing, S_createdAt)]_vars

\* a request has stored the createdAt it read while another request on the same
\* key is still to write
C14_Witness ==
    \E p, q \in Procs :
        /\ p # q
        /\ Served(p, OpPostVideos) /\ resp[p].status = 200
        /\ has(loc[p].existing, S_createdAt)
        /\ field(val(db, keyOf(p)), S_createdAt) = field(loc[p].existing, S_createdAt)
        /\ pc[q] = "pv_write" /\ keyOf(q) = keyOf(p)

\* C15: of the signups for one username in flight together at most one is answered
\* 201, and the password hash in the store is the one that request wrote
C15_OneSignupWins ==
    \A p \in Procs :
        (Served(p, OpSignup) /\ resp[p].status = 201) =>
            /\ \A q \in Procs \ {p} :
                    ~(Served(q, OpSignup) /\ resp[q].status = 201
                        /\ req[q].username = req[p].username)
            /\ field(val(db, accountOf(p)), S_password)
                    = leaf(bcryptHash(req[p].password, saltRounds))

\* C16: a video record in the store stays there, within reach of GET /videos,
\* until a DELETE for its username and videoId is answered 200: whatever the
\* interleaving, no step of a signup, a login, or a save or delete on another key
\* takes it away
C16_OnlyDeleteRemoves ==
    [][\A key \in {videoRefPath(encodeUsernameForFirebase(Alice), V1),
                   videoRefPath(encodeUsernameForFirebase(Bob), V2)} :
         (exists(db, key) /\ ~exists(db', key)) =>
            \E p \in Procs :
                /\ req[p].op = OpDeleteVideo /\ keyOf(p) = key
                /\ pc[p] = "dv_remove" /\ pc'[p] = "done" /\ resp'[p].status = 200]_vars

\* C17: over strings of letters, digits, underscore and the characters . @ # $ [ ]
\* the encoder is injective: two different usernames never have the same token
C17_EncodeIsInjective ==
    (phase = "encoded" /\ raw # raw2) => token # token2

\* C18: after a POST /videos answered 200 the record at the key holds exactly the
\* hotcues of this request (none when the request left them out), whatever hotcues
\* the record held before, and the youtubeUrl, videoId, title and username of this
\* request
C18_HotcuesReplaced ==
    \A p \in Procs :
        (Served(p, OpPostVideos) /\ resp[p].status = 200) =>
            LET stored == val(db, keyOf(p))
            IN  /\ field(stored, S_hotcues) = req[p].hotcues.map
                /\ field(stored, S_youtubeUrl) = leaf(req[p].youtubeUrl)
                /\ field(stored, S_videoId) = leaf(req[p].videoId)
                /\ field(stored, S_title) = leaf(loc[p].title)
                /\ field(stored, S_username) = leaf(req[p].username)
                /\ DOMAIN stored \subseteq
                        DOMAIN prop(S_hotcues, req[p].hotcues.map)
                            \cup {<<f>> : f \in {S_youtubeUrl, S_videoId, S_title, S_username,
                                                 S_updatedAt, S_createdAt}}

\* a save without hotcues on a record that held a hotcue
C18_Witness ==
    /\ Served(1, OpPostVideos)
    /\ resp[1].status = 200
    /\ req[1].hotcues = HcOmitted
    /\ field(val(pre[1].db, keyOf(1)), S_hotcues) = HcW.map
    /\ ~has(val(db, keyOf(1)), S_hotcues)

\* C20: POST /signup answers 409 only for a username an earlier signup was
\* answered 201 for; a username that passes validation and never signed up gets
\* 201, video records saved under it or not
C20_ConflictOnlyAfterSignup ==
    \A p \in Procs :
        (Served(p, OpSignup) /\ resp[p].status # 400) =>
            /\ resp[p].status = 409 => req[p].username \in DOMAIN pre[p].accounts
            /\ req[p].username \notin DOMAIN pre[p].accounts => resp[p].status = 201

\* C21: a deleted record does not come back with its old creation time: whatever
\* the interleaving of a DELETE and POST /videos requests on one key, a record
\* stored at the key once a DELETE has removed the record there has the createdAt
\* of the write that stores it, not the createdAt of the record removed
C21_NoResurrection ==
    [][\A p \in Procs :
         (/\ pc[p] = "pv_write" /\ pc'[p] = "done" /\ resp'[p].status = 200
          /\ ~exists(db, keyOf(p))
          /\ \E q \in Procs : Served(q, OpDeleteVideo) /\ resp[q].status = 200
                                /\ keyOf(q) = keyOf(p)) =>
                field(val(db', keyOf(p)), S_createdAt) = leaf(now')]_vars

=============================================================================
